---- MODULE Spec2Model ----
(***************************************************************************)
(* Model of the project catalog of claude-maestro: the SQLite schema       *)
(* (schema.sql), the data-access layer (ProjectRepository) and the         *)
(* business-rule layer (ProjectManager).                                   *)
(*                                                                         *)
(* Encoding of JavaScript / SQL values:                                    *)
(*   - a string is a sequence of one-character strings, so that length,    *)
(*     trimming and case folding are computed and not assumed;             *)
(*   - JS undefined and SQL NULL are the one-element sequences UNDEFINED   *)
(*     and NULL, whose single element is not a character of any string;    *)
(*   - a Partial<ProjectFormData> is a record with a field keys (the keys  *)
(*     present in the object); a field whose key is absent holds <<>>;     *)
(*   - a table is the set (projects), the bag (project_tags) or the        *)
(*     rowid-ordered sequence (project_repositories) of its rows.          *)
(***************************************************************************)
EXTENDS Integers, Sequences, FiniteSets, Bags, TLC

VARIABLES projects, project_tags, project_repositories, app_metadata,
          clock, nextUuid, last,
          instance, db, handles, repository, calls

\* last = [op, id, outcome, written, data]: the operation of the latest
\* step, the id it was called with (the id it generated, for a successful
\* create), how it ended, what it wrote and the payload it stored

\* the four tables are the content of the database file projects.db;
\* instance = DatabaseManager.instance (0 is null, else the number of a
\*   DatabaseManager object; object 1 is the exported databaseManager);
\* db[m] = the field db of DatabaseManager object m (0 is null, else the
\*   number of a connection); handles[h] = "open" or "closed", the state of
\*   the h-th connection made by new Database(dbPath);
\* repository = the connection the ProjectRepository cached by
\*   projectManager was constructed with (0: no repository yet);
\* calls = the ipcRenderer.invoke calls whose promise the renderer holds

vars == <<projects, project_tags, project_repositories, app_metadata,
          clock, nextUuid, last, instance, db, handles, repository, calls>>

(***************************************************************************)
(* Bounds of the model.                                                    *)
(***************************************************************************)
MaxUuid == 2          \* randomUUID() values drawn in a behaviour of Spec
MaxRepoUuid == 3      \* randomUUID() values drawn in a behaviour of RepoSpec
MaxTime == 1          \* largest value Date.now() returns
MaxManagers == 2      \* DatabaseManager objects constructed in LifeSpec
MaxHandles == 3       \* connections made by new Database() in LifeSpec
MaxCalls == 2         \* ipcRenderer.invoke calls in flight in IpcSpec

(***************************************************************************)
(* Program constants.                                                      *)
(***************************************************************************)
MaxNameLen == 255

(***************************************************************************)
(* Strings.                                                                *)
(***************************************************************************)
UNDEFINED == <<"<undefined>">>
NULL == <<"<null>">>

UpperCase == <<"A","B","C","D","E","F","G","H","I","J","K","L","M",
               "N","O","P","Q","R","S","T","U","V","W","X","Y","Z">>
LowerCase == <<"a","b","c","d","e","f","g","h","i","j","k","l","m",
               "n","o","p","q","r","s","t","u","v","w","x","y","z">>

\* SQLite NOCASE folds the 26 upper case ASCII letters and nothing else.
FoldChar(c) ==
  IF \E i \in 1..26 : UpperCase[i] = c
  THEN LowerCase[CHOOSE i \in 1..26 : UpperCase[i] = c]
  ELSE c

NoCase(s) == [i \in 1..Len(s) |-> FoldChar(s[i])]

NoCaseEqual(a, b) == a # NULL /\ b # NULL /\ NoCase(a) = NoCase(b)

\* String.prototype.toLowerCase on the letters used here: the ASCII letters
\* and U+00C9, which it lowers to U+00E9
ToLowerChar(c) == IF c = "É" THEN "é" ELSE FoldChar(c)

ToLowerCase(s) == [i \in 1..Len(s) |-> ToLowerChar(s[i])]

Whitespace == {" ", "\t", "\n"}

\* String.prototype.trim().length === 0
TrimIsEmpty(s) == \A i \in 1..Len(s) : s[i] \in Whitespace

\* JavaScript truthiness of a string-or-absent value
Truthy(v) == v # UNDEFINED /\ v # NULL /\ Len(v) > 0

\* a || null   and   a || undefined
OrNull(v) == IF Truthy(v) THEN v ELSE NULL
OrUndefined(v) == IF Truthy(v) THEN v ELSE UNDEFINED

\* better-sqlite3 binds both null and undefined as SQL NULL
Bind(v) == IF v = UNDEFINED THEN NULL ELSE v

Range(s) == {s[i] : i \in 1..Len(s)}

\* the elements of an array, each with the number of its occurrences
BagOfSeq(s) == [x \in Range(s) |-> Cardinality({i \in 1..Len(s) : s[i] = x})]

(***************************************************************************)
(* The store.  D is a record of the four tables of schema.sql:             *)
(*   projects             : set of [id, name, created_at, updated_at]      *)
(*   project_tags         : bag of [project_id, tag]                       *)
(*   project_repositories : sequence (rowid order) of                      *)
(*       [id, project_id, name, url, default_branch, provider, created_at] *)
(*   app_metadata         : [schema_version, active_project_id]            *)
(* A statement yields [ok, db, changes]: ok = FALSE when the engine raises *)
(* a constraint error, and db is then the store as the statement left it.  *)
(***************************************************************************)
Store == [projects |-> projects, project_tags |-> project_tags,
          project_repositories |-> project_repositories,
          app_metadata |-> app_metadata]

Ok(D, n) == [ok |-> TRUE, db |-> D, changes |-> n]
Fail(D) == [ok |-> FALSE, db |-> D, changes |-> 0]

ProjectIds(D) == {p.id : p \in D.projects}

ProjectRow(D, id) == CHOOSE p \in D.projects : p.id = id

\* ORDER BY created_at ASC of rows that come in rowid order: a row goes
\* after the rows whose created_at is not larger (rows of equal created_at
\* keep their rowid order)
RECURSIVE InsertByCreatedAt(_, _)
InsertByCreatedAt(sorted, row) ==
  IF sorted = <<>> THEN <<row>>
  ELSE IF sorted[Len(sorted)].created_at <= row.created_at
  THEN Append(sorted, row)
  ELSE Append(InsertByCreatedAt(SubSeq(sorted, 1, Len(sorted) - 1), row),
              sorted[Len(sorted)])

RECURSIVE OrderByCreatedAt(_)
OrderByCreatedAt(rows) ==
  IF rows = <<>> THEN <<>>
  ELSE InsertByCreatedAt(OrderByCreatedAt(SubSeq(rows, 1, Len(rows) - 1)),
                         rows[Len(rows)])

\* the rows of the project, newest rowid first
SelectSeqOfReversed(rows, pid) ==
  LET mine == SelectSeq(rows, LAMBDA r : r.project_id = pid)
  IN  [i \in 1..Len(mine) |-> mine[Len(mine) + 1 - i]]

\* SELECT ... FROM project_repositories WHERE project_id = ?
\* ORDER BY created_at ASC
SelectSeqOf(rows, pid) ==
  OrderByCreatedAt(SelectSeq(rows, LAMBDA r : r.project_id = pid))

\* INSERT INTO projects (id, name, created_at, updated_at) VALUES (?, ?, ?, ?)
\* id PRIMARY KEY, name NOT NULL UNIQUE COLLATE NOCASE
InsertProject(D, id, name, now) ==
  IF \/ Bind(name) = NULL
     \/ \E p \in D.projects : p.id = id \/ NoCaseEqual(p.name, Bind(name))
  THEN Fail(D)
  ELSE Ok([D EXCEPT !.projects = @ \cup
             {[id |-> id, name |-> Bind(name),
               created_at |-> now, updated_at |-> now]}], 1)

\* UPDATE projects SET name = ?, updated_at = ? WHERE id = ?
UpdateProjectName(D, id, name, now) ==
  IF id \notin ProjectIds(D) THEN Ok(D, 0)
  ELSE IF \/ Bind(name) = NULL
          \/ \E p \in D.projects : p.id # id /\ NoCaseEqual(p.name, Bind(name))
  THEN Fail(D)
  ELSE Ok([D EXCEPT !.projects =
             {IF p.id = id
              THEN [p EXCEPT !.name = Bind(name), !.updated_at = now]
              ELSE p : p \in @}], 1)

\* update() running no statement on projects when no name is given
UpdateProjectTimestampSkipped(D, id, now) ==
  Ok(D, IF id \in ProjectIds(D) THEN 1 ELSE 0)

\* UPDATE projects SET updated_at = ? WHERE id = ?
UpdateProjectTimestamp(D, id, now) ==
  IF id \notin ProjectIds(D) THEN Ok(D, 0)
  ELSE Ok([D EXCEPT !.projects =
             {IF p.id = id THEN [p EXCEPT !.updated_at = now] ELSE p
              : p \in @}], 1)

TagRow(pid, tag) == [project_id |-> pid, tag |-> tag]

\* the rows of project_tags WHERE project_id = ?
TagRows(D, pid) ==
  [r \in {t \in BagToSet(D.project_tags) : t.project_id = pid} |->
     D.project_tags[r]]

\* the insert with no PRIMARY KEY (project_id, tag) on the table
InsertTagNoPrimaryKey(D, pid, tag) ==
  IF Bind(tag) = NULL \/ pid \notin ProjectIds(D)
  THEN Fail(D)
  ELSE Ok([D EXCEPT !.project_tags =
             @ (+) SetToBag({TagRow(pid, Bind(tag))})], 1)

\* the insert with foreign keys not enforced (no PRAGMA foreign_keys = ON)
InsertTagNoForeignKey(D, pid, tag) ==
  IF Bind(tag) = NULL \/ BagIn(TagRow(pid, Bind(tag)), D.project_tags)
  THEN Fail(D)
  ELSE Ok([D EXCEPT !.project_tags =
             @ (+) SetToBag({TagRow(pid, Bind(tag))})], 1)

\* INSERT INTO project_tags (project_id, tag) VALUES (?, ?)
\* tag NOT NULL, PRIMARY KEY (project_id, tag), FOREIGN KEY (project_id)
InsertTag(D, pid, tag) ==
  IF \/ Bind(tag) = NULL
     \/ BagIn(TagRow(pid, Bind(tag)), D.project_tags)
     \/ pid \notin ProjectIds(D)
  THEN Fail(D)
  ELSE Ok([D EXCEPT !.project_tags =
             @ (+) SetToBag({TagRow(pid, Bind(tag))})], 1)

\* for (const tag of data.tags) insertTag.run(projectId, tag)
RECURSIVE InsertTags(_, _, _)
InsertTags(D, pid, tags) ==
  IF tags = <<>> THEN Ok(D, 0)
  ELSE LET r == InsertTag(D, pid, Head(tags))
       IN  IF r.ok THEN InsertTags(r.db, pid, Tail(tags)) ELSE r

\* DELETE FROM project_tags WHERE project_id = ?
DeleteTags(D, pid) ==
  Ok([D EXCEPT !.project_tags = @ (-) TagRows(D, pid)],
     BagCardinality(TagRows(D, pid)))

\* INSERT INTO project_repositories (id, project_id, name, url,
\*   default_branch, provider, created_at) VALUES (?, ?, ?, ?, ?, ?, ?)
\* with repo.name || null, repo.defaultBranch || null, repo.provider || null
\* id PRIMARY KEY, url NOT NULL, FOREIGN KEY (project_id)
InsertRepo(D, id, pid, repo, now) ==
  IF \/ Bind(repo.url) = NULL
     \/ \E i \in 1..Len(D.project_repositories) :
           D.project_repositories[i].id = id
     \/ pid \notin ProjectIds(D)
  THEN Fail(D)
  ELSE Ok([D EXCEPT !.project_repositories = Append(@,
             [id |-> id, project_id |-> pid,
              name |-> OrNull(repo.name), url |-> Bind(repo.url),
              default_branch |-> OrNull(repo.defaultBranch),
              provider |-> OrNull(repo.provider),
              created_at |-> now])], 1)

\* for (const repo of data.repositories) { repoId = randomUUID(); ... }
\* the k-th repository of the loop receives the uuid number uuid + k - 1
RECURSIVE InsertRepos(_, _, _, _, _)
InsertRepos(D, pid, repos, now, uuid) ==
  IF repos = <<>> THEN Ok(D, 0)
  ELSE LET r == InsertRepo(D, ToString(uuid), pid, Head(repos), now)
       IN  IF r.ok THEN InsertRepos(r.db, pid, Tail(repos), now, uuid + 1)
           ELSE r

\* DELETE FROM project_repositories WHERE project_id = ?
DeleteRepos(D, pid) ==
  Ok([D EXCEPT !.project_repositories =
        SelectSeq(@, LAMBDA r : r.project_id # pid)],
     Len(SelectSeqOf(D.project_repositories, pid)))

\* the delete with foreign keys not enforced: child rows stay
DeleteProjectRowNoCascade(D, id) ==
  IF id \notin ProjectIds(D) THEN Ok(D, 0)
  ELSE Ok([D EXCEPT !.projects = {p \in @ : p.id # id}], 1)

\* DELETE FROM projects WHERE id = ?
\* with ON DELETE CASCADE on both child tables (foreign_keys = ON)
DeleteProjectRow(D, id) ==
  IF id \notin ProjectIds(D) THEN Ok(D, 0)
  ELSE Ok([D EXCEPT
             !.projects = {p \in @ : p.id # id},
             !.project_tags = @ (-) TagRows(D, id),
             !.project_repositories =
                SelectSeq(@, LAMBDA r : r.project_id # id)], 1)

\* db.transaction(fn): commit when fn returns, roll back when it throws
Transaction(D, r) == IF r.ok THEN r ELSE Fail(D)

(***************************************************************************)
(* ProjectRepository.                                                      *)
(***************************************************************************)
Has(data, key) == key \in data.keys

NameOf(data) == IF Has(data, "name") THEN data.name ELSE UNDEFINED

JsNull == "<null>"

\* the aggregate built by hydrateProject; the tags query has no ORDER BY,
\* so the tags of the aggregate are the bag of the rows' tags
HydrateProject(D, row) ==
  [id |-> row.id,
   name |-> row.name,
   tags |-> [t \in {r.tag : r \in BagToSet(TagRows(D, row.id))} |->
              D.project_tags[TagRow(row.id, t)]],
   repositories |->
     LET rs == SelectSeqOf(D.project_repositories, row.id)
     IN  [i \in 1..Len(rs) |->
            [id |-> rs[i].id,
             name |-> OrUndefined(rs[i].name),
             url |-> rs[i].url,
             defaultBranch |-> OrUndefined(rs[i].default_branch),
             provider |-> OrUndefined(rs[i].provider)]],
   createdAt |-> row.created_at,
   updatedAt |-> row.updated_at]

\* SELECT ... FROM projects WHERE id = ?          (the rows found)
FindById(D, id) == {p \in D.projects : p.id = id}

\* the rows of projects in rowid order: the order of their inserts, which
\* is the order of the uuids drawn for them; uuid is the next one to draw
RECURSIVE ProjectsByRowid(_, _)
ProjectsByRowid(D, uuid) ==
  IF uuid <= 1 THEN <<>>
  ELSE ProjectsByRowid(D, uuid - 1)
       \o (IF ToString(uuid - 1) \in ProjectIds(D)
           THEN <<ProjectRow(D, ToString(uuid - 1))>> ELSE <<>>)

\* ORDER BY created_at DESC of rows that come in rowid order: a row goes
\* after the rows whose created_at is not smaller
RECURSIVE InsertByCreatedAtDesc(_, _)
InsertByCreatedAtDesc(sorted, row) ==
  IF sorted = <<>> THEN <<row>>
  ELSE IF sorted[Len(sorted)].created_at >= row.created_at
  THEN Append(sorted, row)
  ELSE Append(InsertByCreatedAtDesc(SubSeq(sorted, 1, Len(sorted) - 1), row),
              sorted[Len(sorted)])

RECURSIVE OrderByCreatedAtDesc(_)
OrderByCreatedAtDesc(rows) ==
  IF rows = <<>> THEN <<>>
  ELSE InsertByCreatedAtDesc(
         OrderByCreatedAtDesc(SubSeq(rows, 1, Len(rows) - 1)),
         rows[Len(rows)])

\* findAll with ORDER BY created_at ASC
FindAllOldestFirst(D, uuid) ==
  LET rows == OrderByCreatedAt(ProjectsByRowid(D, uuid))
  IN  [i \in 1..Len(rows) |-> HydrateProject(D, rows[i])]

\* findAll(): SELECT ... FROM projects ORDER BY created_at DESC, hydrated
FindAll(D, uuid) ==
  LET rows == OrderByCreatedAtDesc(ProjectsByRowid(D, uuid))
  IN  [i \in 1..Len(rows) |-> HydrateProject(D, rows[i])]

\* SELECT ... FROM projects WHERE name = ? COLLATE NOCASE
FindByName(D, name) == {p \in D.projects : NoCaseEqual(p.name, Bind(name))}

\* the statements of create() without the tag inserts
CreateBodySkipsTags(D, data, now, uuid) ==
  LET projectId == ToString(uuid)
      s1 == InsertProject(D, projectId, NameOf(data), now)
      s3 == IF ~s1.ok THEN s1
            ELSE IF ~Has(data, "repositories") THEN Fail(s1.db)
            ELSE InsertRepos(s1.db, projectId, data.repositories, now,
                             uuid + 1)
  IN  s3

\* the statements of the transaction of create()
CreateBody(D, data, now, uuid) ==
  LET projectId == ToString(uuid)
      s1 == InsertProject(D, projectId, NameOf(data), now)
      s2 == IF ~s1.ok THEN s1
            ELSE IF ~Has(data, "tags") THEN Fail(s1.db)
            ELSE InsertTags(s1.db, projectId, data.tags)
      s3 == IF ~s2.ok THEN s2
            ELSE IF ~Has(data, "repositories") THEN Fail(s2.db)
            ELSE InsertRepos(s2.db, projectId, data.repositories, now,
                             uuid + 1)
  IN  s3

\* create with its statements run outside a transaction
CreateNoRollback(D, data, now, uuid) ==
  LET t == CreateBody(D, data, now, uuid)
  IN  [ok |-> t.ok /\ FindById(t.db, ToString(uuid)) # {},
       db |-> t.db, id |-> ToString(uuid)]

\* create(formData): [ok, db, id]
Create(D, data, now, uuid) ==
  LET t == Transaction(D, CreateBody(D, data, now, uuid))
  IN  [ok |-> t.ok /\ FindById(t.db, ToString(uuid)) # {},
       db |-> t.db, id |-> ToString(uuid)]

\* the statements of update() without the DELETE of the old tag rows
UpdateBodyMergesTags(D, id, data, now, uuid) ==
  LET s1 == IF Has(data, "name")
            THEN UpdateProjectName(D, id, data.name, now)
            ELSE UpdateProjectTimestamp(D, id, now)
      s2 == IF ~s1.ok THEN s1
            ELSE IF Has(data, "tags")
            THEN InsertTags(s1.db, id, data.tags)
            ELSE s1
      s3 == IF ~s2.ok THEN s2
            ELSE IF Has(data, "repositories")
            THEN InsertRepos(DeleteRepos(s2.db, id).db, id,
                             data.repositories, now, uuid)
            ELSE s2
  IN  s3

\* the statements of update() replacing the tags also when none are given
UpdateBodyClearsTags(D, id, data, now, uuid) ==
  LET s1 == IF Has(data, "name")
            THEN UpdateProjectName(D, id, data.name, now)
            ELSE UpdateProjectTimestamp(D, id, now)
      s2 == IF ~s1.ok THEN s1
            ELSE InsertTags(DeleteTags(s1.db, id).db, id, data.tags)
      s3 == IF ~s2.ok THEN s2
            ELSE IF Has(data, "repositories")
            THEN InsertRepos(DeleteRepos(s2.db, id).db, id,
                             data.repositories, now, uuid)
            ELSE s2
  IN  s3

\* the statements of update() without the DELETE of the old repository rows
UpdateBodyKeepsRepos(D, id, data, now, uuid) ==
  LET s1 == IF Has(data, "name")
            THEN UpdateProjectName(D, id, data.name, now)
            ELSE UpdateProjectTimestamp(D, id, now)
      s2 == IF ~s1.ok THEN s1
            ELSE IF Has(data, "tags")
            THEN InsertTags(DeleteTags(s1.db, id).db, id, data.tags)
            ELSE s1
      s3 == IF ~s2.ok THEN s2
            ELSE IF Has(data, "repositories")
            THEN InsertRepos(s2.db, id, data.repositories, now, uuid)
            ELSE s2
  IN  s3

\* the statements of the transaction of update()
UpdateBody(D, id, data, now, uuid) ==
  LET s1 == IF Has(data, "name")
            THEN UpdateProjectName(D, id, data.name, now)
            ELSE UpdateProjectTimestamp(D, id, now)
      s2 == IF ~s1.ok THEN s1
            ELSE IF Has(data, "tags")
            THEN InsertTags(DeleteTags(s1.db, id).db, id, data.tags)
            ELSE s1
      s3 == IF ~s2.ok THEN s2
            ELSE IF Has(data, "repositories")
            THEN InsertRepos(DeleteRepos(s2.db, id).db, id,
                             data.repositories, now, uuid)
            ELSE s2
  IN  s3

\* update with its statements run outside a transaction
UpdateNoRollback(D, id, data, now, uuid) ==
  LET t == UpdateBody(D, id, data, now, uuid)
  IN  [ok |-> t.ok /\ FindById(t.db, id) # {}, db |-> t.db]

\* update(id, formData): [ok, db]
Update(D, id, data, now, uuid) ==
  LET t == Transaction(D, UpdateBody(D, id, data, now, uuid))
  IN  [ok |-> t.ok /\ FindById(t.db, id) # {}, db |-> t.db]

\* delete(id): [ok, db]
Delete(D, id) ==
  LET r == DeleteProjectRow(D, id)
  IN  [ok |-> r.changes # 0, db |-> r.db]

\* getActiveProjectId(): 'null' is read as null
GetActiveProjectId(D) ==
  IF D.app_metadata.active_project_id = "null" THEN JsNull
  ELSE D.app_metadata.active_project_id

\* setActiveProjectId(id): value = id || 'null'
SetActiveProjectId(D, id) ==
  [D EXCEPT !.app_metadata.active_project_id =
     IF id = JsNull \/ id = "" THEN "null" ELSE id]

(***************************************************************************)
(* ProjectManager.  An operation yields [outcome, db, written]: outcome is *)
(* "ok", or the error it throws ("validation", "duplicate", "notfound",    *)
(* "storage"); written names what it wrote besides the rows it deleted     *)
(* (the keys of the payload, the active_project_id row).                   *)
(***************************************************************************)
\* the errors of validateProjectData, in the order they are pushed;
\* index is the array index of the field path, -1 when it has none
NameErrors(data) ==
  IF Has(data, "name")
     /\ (~Truthy(data.name) \/ TrimIsEmpty(data.name)
         \/ Len(data.name) > MaxNameLen)
  THEN <<[field |-> "name", index |-> -1]>> ELSE <<>>

RECURSIVE TagErrors(_, _)
TagErrors(tags, i) ==
  IF i >= Len(tags) THEN <<>>
  ELSE (IF tags[i + 1] = UNDEFINED \/ tags[i + 1] = NULL
           \/ TrimIsEmpty(tags[i + 1])
        THEN <<[field |-> "tags", index |-> i]>> ELSE <<>>)
       \o TagErrors(tags, i + 1)

RECURSIVE RepoErrors(_, _)
RepoErrors(repos, i) ==
  IF i >= Len(repos) THEN <<>>
  ELSE (IF ~Truthy(repos[i + 1].url) \/ TrimIsEmpty(repos[i + 1].url)
        THEN <<[field |-> "repositories.url", index |-> i]>> ELSE <<>>)
       \o RepoErrors(repos, i + 1)

ValidateProjectData(data) ==
  NameErrors(data)
  \o (IF Has(data, "tags") THEN TagErrors(data.tags, 0) ELSE <<>>)
  \o (IF Has(data, "repositories")
      THEN RepoErrors(data.repositories, 0) ELSE <<>>)

Result(outcome, D, written) ==
  [outcome |-> outcome, db |-> D, written |-> written]

CreateProject(D, data, now, uuid) ==
  IF ValidateProjectData(data) # <<>>
  THEN Result("validation", D, {})
  ELSE IF FindByName(D, NameOf(data)) # {}
  THEN Result("duplicate", D, {})
  ELSE LET r == Create(D, data, now, uuid)
       IN  IF r.ok THEN Result("ok", r.db, data.keys)
           ELSE Result("storage", r.db, {})

\* updateProject without the findById check
UpdateProjectNoExistenceCheck(D, id, data, now, uuid) ==
  IF ValidateProjectData(data) # <<>>
  THEN Result("validation", D, {})
  ELSE IF /\ Has(data, "name") /\ Truthy(data.name)
          /\ \E d \in FindByName(D, data.name) : d.id # id
  THEN Result("duplicate", D, {})
  ELSE LET r == Update(D, id, data, now, uuid)
       IN  IF r.ok THEN Result("ok", r.db, data.keys)
           ELSE Result("storage", r.db, {})

UpdateProject(D, id, data, now, uuid) ==
  IF ValidateProjectData(data) # <<>>
  THEN Result("validation", D, {})
  ELSE IF FindById(D, id) = {}
  THEN Result("notfound", D, {})
  ELSE IF /\ Has(data, "name") /\ Truthy(data.name)
          /\ data.name # ProjectRow(D, id).name
          /\ \E d \in FindByName(D, data.name) : d.id # id
  THEN Result("duplicate", D, {})
  ELSE LET r == Update(D, id, data, now, uuid)
       IN  IF r.ok THEN Result("ok", r.db, data.keys)
           ELSE Result("storage", r.db, {})

\* deleteProject without the step that clears the pointer
DeleteProjectKeepsPointer(D, id) ==
  IF FindById(D, id) = {}
  THEN Result("notfound", D, {})
  ELSE LET r == Delete(D, id)
       IN  Result(IF r.ok THEN "ok" ELSE "storage", r.db, {})

\* deleteProject clearing the pointer whichever project is deleted
DeleteProjectAlwaysClears(D, id) ==
  IF FindById(D, id) = {}
  THEN Result("notfound", D, {})
  ELSE LET r == Delete(SetActiveProjectId(D, JsNull), id)
       IN  Result(IF r.ok THEN "ok" ELSE "storage", r.db,
                  {"active_project_id"})

DeleteProject(D, id) ==
  IF FindById(D, id) = {}
  THEN Result("notfound", D, {})
  ELSE LET cleared == GetActiveProjectId(D) = id
           D1 == IF cleared THEN SetActiveProjectId(D, JsNull) ELSE D
           r == Delete(D1, id)
       IN  Result(IF r.ok THEN "ok" ELSE "storage", r.db,
                  IF cleared THEN {"active_project_id"} ELSE {})

\* deleteProject(id) when the DELETE statement throws (SQLITE_BUSY,
\* SQLITE_FULL, SQLITE_IOERR): repository.delete rethrows, deleteProject
\* rethrows, and what was written before the statement stays written
DeleteProjectStorageError(D, id) ==
  IF FindById(D, id) = {}
  THEN Result("notfound", D, {})
  ELSE LET cleared == GetActiveProjectId(D) = id
           D1 == IF cleared THEN SetActiveProjectId(D, JsNull) ELSE D
       IN  Result("storage", D1,
                  IF cleared THEN {"active_project_id"} ELSE {})

\* setActiveProjectId without the findById check
ManagerSetActiveNoCheck(D, id) ==
  Result("ok", SetActiveProjectId(D, id), {"active_project_id"})

ManagerSetActiveProjectId(D, id) ==
  IF id # JsNull /\ FindById(D, id) = {}
  THEN Result("notfound", D, {})
  ELSE Result("ok", SetActiveProjectId(D, id), {"active_project_id"})

(***************************************************************************)
(* DatabaseManager (db-manager.ts) and ProjectManager.getRepository.       *)
(* An operator takes and returns L = [instance, db, handles, store].       *)
(***************************************************************************)
\* app_metadata of a database file that holds no table yet
NoRow == "no row"

TablesExist(D) == D.app_metadata.schema_version # NoRow

\* schema.sql with INSERT OR REPLACE for the two seed rows
RunSchemaReplacesSeeds(D) ==
  [D EXCEPT !.app_metadata =
     [schema_version |-> "1", active_project_id |-> "null"]]

\* db.exec(schema): CREATE TABLE / INDEX IF NOT EXISTS keep what exists,
\* INSERT OR IGNORE adds a seed row where the key has none
RunSchema(D) ==
  [D EXCEPT !.app_metadata =
     [schema_version |-> IF @.schema_version = NoRow
                         THEN "1" ELSE @.schema_version,
      active_project_id |-> IF @.active_project_id = NoRow
                            THEN "null" ELSE @.active_project_id]]

\* what can go wrong in initialize(): new Database(dbPath) throws, or
\* runSchema() throws (schema.sql missing)
InitFaults == {"none", "open", "schema"}

\* initialize() opening a connection also when it holds one
InitializeReconnects(L, m, fault) ==
  IF fault = "open" THEN [ok |-> FALSE, opened |-> FALSE, life |-> L]
  ELSE LET L1 == [L EXCEPT !.db[m] = Len(L.handles) + 1,
                           !.handles = Append(@, "open")]
       IN  IF fault = "schema"
           THEN [ok |-> FALSE, opened |-> TRUE, life |-> L1]
           ELSE [ok |-> TRUE, opened |-> TRUE,
                 life |-> [L1 EXCEPT !.store = RunSchema(@)]]

\* initialize() of DatabaseManager object m: [ok, opened, life]
Initialize(L, m, fault) ==
  IF L.db[m] # 0 THEN [ok |-> TRUE, opened |-> FALSE, life |-> L]
  ELSE IF fault = "open" THEN [ok |-> FALSE, opened |-> FALSE, life |-> L]
  ELSE LET L1 == [L EXCEPT !.db[m] = Len(L.handles) + 1,
                           !.handles = Append(@, "open")]
       IN  IF fault = "schema"
           THEN [ok |-> FALSE, opened |-> TRUE, life |-> L1]
           ELSE [ok |-> TRUE, opened |-> TRUE,
                 life |-> [L1 EXCEPT !.store = RunSchema(@)]]

\* getDatabase(): the connection, 0 where it throws 'not initialized'
GetDatabase(L, m) == L.db[m]

\* close()
Close(L, m) ==
  IF L.db[m] # 0
  THEN [L EXCEPT !.handles[L.db[m]] = "closed", !.db[m] = 0]
  ELSE L

\* DatabaseManager.getInstance(): the object is L.instance of the result
GetInstance(L) ==
  IF L.instance = 0
  THEN [L EXCEPT !.db = Append(@, 0), !.instance = Len(L.db) + 1]
  ELSE L

\* DatabaseManager.resetInstance()
ResetInstance(L) ==
  IF L.instance # 0
  THEN [Close(L, L.instance) EXCEPT !.instance = 0]
  ELSE L

\* the exported databaseManager: the object made when the module loaded
Exported == 1

\* ProjectManager.getRepository(): [ok, repository, life]
GetRepository(L, repo, fault) ==
  IF repo # 0 THEN [ok |-> TRUE, repository |-> repo, life |-> L]
  ELSE LET i == Initialize(L, Exported, fault).life
       IN  [ok |-> GetDatabase(i, Exported) # 0,
            repository |-> GetDatabase(i, Exported), life |-> i]

\* a statement prepared on connection h runs: the connection is open and
\* the tables exist
Usable(L, h) == L.handles[h] = "open" /\ TablesExist(L.store)

(***************************************************************************)
(* Request payloads.                                                       *)
(***************************************************************************)
Payload(keys, n, t, r) ==
  [keys |-> keys,
   name |-> IF "name" \in keys THEN n ELSE <<>>,
   tags |-> IF "tags" \in keys THEN t ELSE <<>>,
   repositories |-> IF "repositories" \in keys THEN r ELSE <<>>]

AllKeys == {"name", "tags", "repositories"}

NoData == Payload({}, <<>>, <<>>, <<>>)

NameFoo == <<"F", "o", "o">>
NameFooLower == <<"f", "o", "o">>
NameBar == <<"B", "a", "r">>
NameAccent == <<"É">>
NameAccentLower == <<"é">>
NameEmpty == <<>>
NameLong == [i \in 1..(MaxNameLen + 1) |-> "a"]

\* names handed to the repository
ValidNames == {NameFoo, NameFooLower, NameBar}

\* names handed to the manager
ManagerNames == {NameFoo, NameFooLower, NameAccent, NameAccentLower}

TagX == <<"x">>
TagY == <<"y">>

TagLists == {<<>>, <<TagX>>, <<TagY, TagX>>, <<TagX, TagX>>}

Repo(url, name, branch, provider) ==
  [url |-> url, name |-> name, defaultBranch |-> branch,
   provider |-> provider]

RepoA == Repo(<<"a">>, UNDEFINED, UNDEFINED, UNDEFINED)
RepoB == Repo(<<"b">>, <<>>, <<"m">>, <<"g">>)
RepoNoUrl == Repo(UNDEFINED, <<"n">>, UNDEFINED, UNDEFINED)
RepoBlankUrl == Repo(<<" ">>, UNDEFINED, UNDEFINED, UNDEFINED)

RepoLists == {<<>>, <<RepoA>>, <<RepoB, RepoA>>, <<RepoNoUrl>>}

\* tags and repositories of the create payloads
Children ==
  {<<<<>>, <<>>>>, <<<<TagX>>, <<>>>>, <<<<TagY, TagX>>, <<RepoB>>>>,
   <<<<TagX, TagX>>, <<>>>>, <<<<TagX>>, <<RepoNoUrl>>>>,
   <<<<>>, <<RepoB, RepoA>>>>}

\* payloads of the repository (the manager hands it validated ones only)
RepoCreatePayloads ==
  {Payload(AllKeys, n, c[1], c[2]) : n \in ValidNames, c \in Children}
  \cup {Payload({"tags", "repositories"}, <<>>, <<TagX>>, <<>>)}

RepoUpdatePayloads ==
  {NoData}
  \cup {Payload({"name"}, n, <<>>, <<>>) : n \in ValidNames}
  \cup {Payload({"tags"}, <<>>, t, <<>>) : t \in TagLists}
  \cup {Payload({"repositories"}, <<>>, <<>>, r) : r \in RepoLists}
  \cup {Payload(AllKeys, NameBar, <<TagX, TagX>>, <<>>),
        Payload(AllKeys, NameFooLower, <<TagX>>, <<RepoNoUrl>>),
        Payload(AllKeys, NameBar, <<TagX>>, <<RepoB>>)}

\* a payload that breaks several rules at once
ManyErrors ==
  Payload(AllKeys, NameEmpty, <<TagX, <<" ">>, NULL, <<>>>>,
          <<RepoNoUrl, RepoA, RepoBlankUrl>>)

\* payloads of the manager: valid ones, and some that fail validation
CreatePayloads ==
  {Payload(AllKeys, n, c[1], c[2]) :
     n \in ManagerNames,
     c \in {<<<<>>, <<>>>>, <<<<TagX>>, <<RepoA>>>>, <<<<TagX, TagX>>, <<>>>>}}
  \cup {Payload({"tags", "repositories"}, <<>>, <<TagX>>, <<>>),
        Payload(AllKeys, NameEmpty, <<TagX>>, <<>>),
        Payload(AllKeys, NameBar, <<<<" ">>>>, <<>>),
        Payload(AllKeys, NameLong, <<>>, <<>>),
        Payload({"tags", "repositories"}, <<>>, <<<<" ">>>>, <<>>),
        ManyErrors}

UpdatePayloads ==
  {NoData}
  \cup {Payload({"name"}, n, <<>>, <<>>) : n \in ManagerNames \cup {NameEmpty}}
  \cup {Payload({"tags"}, <<>>, t, <<>>) :
          t \in {<<TagY, TagX>>, <<TagX, TagX>>, <<TagX, <<>>>>}}
  \cup {Payload({"repositories"}, <<>>, <<>>, <<RepoB>>),
        Payload(AllKeys, NameBar, <<TagX, TagX>>, <<>>),
        Payload({"name"}, NameLong, <<>>, <<>>),
        ManyErrors}

\* the ids handed out so far, and one that never was
IdInputs == {ToString(i) : i \in 1..(nextUuid - 1)} \cup {"non-existent-id"}

(***************************************************************************)
(* State machine.                                                          *)
(***************************************************************************)
Init ==
  /\ projects = {}
  /\ project_tags = EmptyBag
  /\ project_repositories = <<>>
  /\ app_metadata = [schema_version |-> "1", active_project_id |-> "null"]
  /\ clock = 0
  /\ nextUuid = 1
  /\ last = [op |-> "init", id |-> JsNull, outcome |-> "ok", written |-> {},
             data |-> NoData]
  /\ instance = Exported
  /\ db = <<1>>
  /\ handles = <<"open">>
  /\ repository = 0
  /\ calls = {}

Life == [instance |-> instance, db |-> db, handles |-> handles,
         store |-> Store]

\* a ProjectManager method starts with getRepository(); here the exported
\* databaseManager holds an open connection, initialize() is a no-op
UseRepository ==
  /\ repository' = GetRepository(Life, repository, "none").repository
  /\ UNCHANGED <<instance, db, handles, calls>>

Commit(D) ==
  /\ projects' = D.projects
  /\ project_tags' = D.project_tags
  /\ project_repositories' = D.project_repositories
  /\ app_metadata' = D.app_metadata

\* Date.now() advances between calls
Tick ==
  /\ clock < MaxTime
  /\ clock' = clock + 1
  /\ last' = [op |-> "tick", id |-> JsNull, outcome |-> "ok", written |-> {},
             data |-> NoData]
  /\ UNCHANGED <<projects, project_tags, project_repositories, app_metadata,
                 nextUuid, instance, db, handles, repository, calls>>

\* randomUUID() calls of a successful create / update of this payload
CreateUuids(data) == 1 + Len(data.repositories)
UpdateUuids(data) == Len(data.repositories)

\* a call may succeed while the uuids it stores stay within MaxUuid
HasUuids(n) == nextUuid + n - 1 <= MaxUuid
HasRepoUuids(n) == nextUuid + n - 1 <= MaxRepoUuid

\* ProjectManager.createProject(formData)
createProject ==
  \E data \in CreatePayloads :
    \E r \in {CreateProject(Store, data, clock, nextUuid)} :
        /\ r.outcome = "ok" => HasUuids(CreateUuids(data))
        /\ Commit(r.db)
        /\ nextUuid' = IF r.outcome = "ok"
                       THEN nextUuid + CreateUuids(data) ELSE nextUuid
        /\ last' = [op |-> "createProject",
                    id |-> IF r.outcome = "ok" THEN ToString(nextUuid)
                           ELSE JsNull,
                    outcome |-> r.outcome, written |-> r.written,
                    data |-> IF r.outcome = "ok" THEN data ELSE NoData]
        /\ UNCHANGED clock
        /\ UseRepository

\* ProjectManager.updateProject(id, formData)
updateProject ==
  \E id \in IdInputs, data \in UpdatePayloads :
    \E r \in {UpdateProject(Store, id, data, clock, nextUuid)} :
        /\ r.outcome = "ok" => HasUuids(UpdateUuids(data))
        /\ Commit(r.db)
        /\ nextUuid' = IF r.outcome = "ok"
                       THEN nextUuid + UpdateUuids(data) ELSE nextUuid
        /\ last' = [op |-> "updateProject", id |-> id,
                    outcome |-> r.outcome, written |-> r.written,
                    data |-> IF r.outcome = "ok" THEN data ELSE NoData]
        /\ UNCHANGED clock
        /\ UseRepository

\* ProjectManager.deleteProject(id)
deleteProject ==
  \E id \in IdInputs :
    \E r \in {DeleteProject(Store, id)} :
        /\ Commit(r.db)
        /\ last' = [op |-> "deleteProject", id |-> id,
                    outcome |-> r.outcome, written |-> r.written,
                    data |-> NoData]
        /\ UNCHANGED <<clock, nextUuid>>
        /\ UseRepository

\* ProjectManager.setActiveProjectId(id)
setActiveProjectId ==
  \E id \in IdInputs \cup {JsNull} :
    \E r \in {ManagerSetActiveProjectId(Store, id)} :
        /\ Commit(r.db)
        /\ last' = [op |-> "setActiveProjectId", id |-> id,
                    outcome |-> r.outcome, written |-> r.written,
                    data |-> NoData]
        /\ UNCHANGED <<clock, nextUuid>>
        /\ UseRepository

Next == createProject \/ updateProject \/ deleteProject
        \/ setActiveProjectId \/ Tick

Spec == Init /\ [][Next]_vars

\* ProjectManager.deleteProject(id) with the DELETE statement failing
deleteProjectStorageError ==
  \E id \in IdInputs :
    \E r \in {DeleteProjectStorageError(Store, id)} :
        /\ Commit(r.db)
        /\ last' = [op |-> "deleteProject", id |-> id,
                    outcome |-> r.outcome, written |-> r.written,
                    data |-> NoData]
        /\ UNCHANGED <<clock, nextUuid>>
        /\ UseRepository

\* the manager over a storage whose DELETE may fail
FaultNext == createProject \/ updateProject \/ deleteProject
             \/ deleteProjectStorageError \/ setActiveProjectId \/ Tick

FaultSpec == Init /\ [][FaultNext]_vars

\* ProjectRepository.create(formData)
create ==
  \E data \in RepoCreatePayloads :
    \E r \in {Create(Store, data, clock, nextUuid)} :
        /\ r.ok => HasRepoUuids(CreateUuids(data))
        /\ Commit(r.db)
        /\ nextUuid' = IF r.ok THEN nextUuid + CreateUuids(data)
                       ELSE nextUuid
        /\ last' = [op |-> "create",
                    id |-> IF r.ok THEN r.id ELSE JsNull,
                    outcome |-> IF r.ok THEN "ok" ELSE "storage",
                    written |-> IF r.ok THEN data.keys ELSE {},
                    data |-> IF r.ok THEN data ELSE NoData]
        /\ UNCHANGED clock
        /\ UNCHANGED <<instance, db, handles, repository, calls>>

\* ProjectRepository.update(id, formData)
update ==
  \E id \in IdInputs, data \in RepoUpdatePayloads :
    \E r \in {Update(Store, id, data, clock, nextUuid)} :
        /\ r.ok => HasRepoUuids(UpdateUuids(data))
        /\ Commit(r.db)
        /\ nextUuid' = IF r.ok THEN nextUuid + UpdateUuids(data)
                       ELSE nextUuid
        /\ last' = [op |-> "update", id |-> id,
                    outcome |-> IF r.ok THEN "ok" ELSE "storage",
                    written |-> IF r.ok THEN data.keys ELSE {},
                    data |-> IF r.ok THEN data ELSE NoData]
        /\ UNCHANGED clock
        /\ UNCHANGED <<instance, db, handles, repository, calls>>

\* ProjectRepository.delete(id)
delete ==
  \E id \in IdInputs :
    \E r \in {Delete(Store, id)} :
        /\ Commit(r.db)
        /\ last' = [op |-> "delete", id |-> id,
                    outcome |-> IF r.ok THEN "ok" ELSE "storage",
                    written |-> {}, data |-> NoData]
        /\ UNCHANGED <<clock, nextUuid>>
        /\ UNCHANGED <<instance, db, handles, repository, calls>>

RepoNext == create \/ update \/ delete \/ Tick

RepoSpec == Init /\ [][RepoNext]_vars

(***************************************************************************)
(* Life cycle of the storage engine: LifeSpec starts when db-manager.ts    *)
(* has been loaded (databaseManager constructed, no connection, no file)   *)
(* and lets any holder of a DatabaseManager reference call it.             *)
(***************************************************************************)
LifeInit ==
  /\ projects = {}
  /\ project_tags = EmptyBag
  /\ project_repositories = <<>>
  /\ app_metadata = [schema_version |-> NoRow, active_project_id |-> NoRow]
  /\ clock = 0
  /\ nextUuid = 1
  /\ last = [op |-> "init", id |-> JsNull, outcome |-> "ok", written |-> {},
             data |-> NoData]
  /\ instance = Exported
  /\ db = <<0>>
  /\ handles = <<>>
  /\ repository = 0
  /\ calls = {}

CommitLife(L) ==
  /\ instance' = L.instance
  /\ db' = L.db
  /\ handles' = L.handles
  /\ Commit(L.store)

\* the DatabaseManager objects a caller may hold a reference to
Managers == 1..Len(db)

LifeLast(op, m, outcome, written) ==
  [op |-> op, id |-> ToString(m), outcome |-> outcome, written |-> written,
   data |-> NoData]

\* DatabaseManager.getInstance()
getInstance ==
  \E L \in {GetInstance(Life)} :
      /\ Len(L.db) <= MaxManagers
      /\ CommitLife(L)
      /\ last' = LifeLast("getInstance", L.instance, "ok", {})
      /\ UNCHANGED <<clock, nextUuid, repository, calls>>

\* initialize() called on a DatabaseManager
initialize ==
  \E m \in Managers, fault \in InitFaults :
    \E r \in {Initialize(Life, m, fault)} :
        /\ Len(r.life.handles) <= MaxHandles
        /\ CommitLife(r.life)
        /\ last' = LifeLast("initialize", m,
                            IF r.ok THEN "ok" ELSE fault,
                            IF r.opened THEN {"db"} ELSE {})
        /\ UNCHANGED <<clock, nextUuid, repository, calls>>

\* getDatabase() called on a DatabaseManager
getDatabase ==
  \E m \in Managers :
      /\ last' = LifeLast("getDatabase", m,
                          IF GetDatabase(Life, m) # 0 THEN "ok"
                          ELSE "notinitialized", {})
      /\ UNCHANGED <<projects, project_tags, project_repositories,
                     app_metadata, clock, nextUuid, instance, db, handles,
                     repository, calls>>

\* close() called on a DatabaseManager
close ==
  \E m \in Managers :
      /\ CommitLife(Close(Life, m))
      /\ last' = LifeLast("close", m, "ok",
                          IF db[m] # 0 THEN {"db"} ELSE {})
      /\ UNCHANGED <<clock, nextUuid, repository, calls>>

\* DatabaseManager.resetInstance()
resetInstance ==
  /\ CommitLife(ResetInstance(Life))
  /\ last' = LifeLast("resetInstance", instance, "ok", {})
  /\ UNCHANGED <<clock, nextUuid, repository, calls>>

\* projectManager.resetRepository()
resetRepository ==
  /\ repository' = 0
  /\ last' = LifeLast("resetRepository", Exported, "ok", {})
  /\ UNCHANGED <<projects, project_tags, project_repositories,
                 app_metadata, clock, nextUuid, instance, db, handles, calls>>

\* payloads of the manager calls of LifeSpec
LifePayloads ==
  {Payload(AllKeys, NameFoo, <<TagX>>, <<>>),
   Payload(AllKeys, NameBar, <<>>, <<RepoA>>)}

\* a ProjectManager method: getRepository(), then the method on the cached
\* repository; a statement on a closed connection or on a missing table
\* throws. r is what the method does to a usable store.
ManagerCall(g, r) ==
  IF ~g.ok THEN Result("notinitialized", g.life.store, {})
  ELSE IF ~Usable(g.life, g.repository)
  THEN Result("storage", g.life.store, {})
  ELSE r

\* projectManager.createProject(formData)
managerCreateProject ==
  \E data \in LifePayloads, fault \in InitFaults :
    \E g \in {GetRepository(Life, repository, fault)} :
      \E r \in {ManagerCall(g, CreateProject(g.life.store, data, clock,
                                             nextUuid))} :
        /\ Len(g.life.handles) <= MaxHandles
        /\ r.outcome = "ok" => HasUuids(CreateUuids(data))
        /\ CommitLife([g.life EXCEPT !.store = r.db])
        /\ repository' = g.repository
        /\ nextUuid' = IF r.outcome = "ok"
                       THEN nextUuid + CreateUuids(data) ELSE nextUuid
        /\ last' = [op |-> "createProject",
                    id |-> IF r.outcome = "ok" THEN ToString(nextUuid)
                           ELSE JsNull,
                    outcome |-> r.outcome, written |-> r.written,
                    data |-> IF r.outcome = "ok" THEN data ELSE NoData]
        /\ UNCHANGED <<clock, calls>>

\* projectManager.setActiveProjectId(id)
managerSetActiveProjectId ==
  \E id \in IdInputs \cup {JsNull}, fault \in InitFaults :
    \E g \in {GetRepository(Life, repository, fault)} :
      \E r \in {ManagerCall(g, ManagerSetActiveProjectId(g.life.store,
                                                         id))} :
        /\ Len(g.life.handles) <= MaxHandles
        /\ CommitLife([g.life EXCEPT !.store = r.db])
        /\ repository' = g.repository
        /\ last' = [op |-> "setActiveProjectId", id |-> id,
                    outcome |-> r.outcome, written |-> r.written,
                    data |-> NoData]
        /\ UNCHANGED <<clock, nextUuid, calls>>

LifeNext == getInstance \/ initialize \/ getDatabase \/ close
            \/ resetInstance \/ resetRepository
            \/ managerCreateProject \/ managerSetActiveProjectId

LifeSpec == LifeInit /\ [][LifeNext]_vars

(***************************************************************************)
(* IPC (ipc-handlers.ts).  A call is [slot, channel, missing, id, data,    *)
(* known, state, envelope]: missing says that invoke passed no argument,   *)
(* id and data are the argument (payload.id and payload.data for update),  *)
(* known that id was a stored project when the renderer sent the call;     *)
(* state is "sent", then "resolved" or "rejected", the state of the        *)
(* promise the async handler returned.  A handler holds no await: once     *)
(* ipcMain calls it, it runs to its return in one turn of the event loop.  *)
(***************************************************************************)
PROJECT_CREATE == "ipc:project:create"
PROJECT_UPDATE == "ipc:project:update"
PROJECT_DELETE == "ipc:project:delete"
PROJECT_GET_ACTIVE == "ipc:project:getActive"
PROJECT_SET_ACTIVE == "ipc:project:setActive"

\* the id a handler sees when invoke passed none
IdUndefined == "<undefined>"

NoEnvelope == [success |-> FALSE, keys |-> {}, error |-> "<none>"]

\* createSuccessResponse(data)
CreateSuccessResponse == [success |-> TRUE, keys |-> {"data"},
                          error |-> "<none>"]

\* createErrorResponse(error)
CreateErrorResponse(error) == [success |-> FALSE, keys |-> {"error"},
                               error |-> error]

\* try { manager call; return createSuccessResponse(...) }
\* catch (error) { ...; return createErrorResponse(error.message) }
Settled(r, uuids) ==
  [state |-> "resolved",
   envelope |-> IF r.outcome = "ok" THEN CreateSuccessResponse
                ELSE CreateErrorResponse(r.outcome),
   outcome |-> r.outcome, db |-> r.db, written |-> r.written,
   uuids |-> IF r.outcome = "ok" THEN uuids ELSE 0]

\* the catch block itself throws: the promise of the handler rejects
Rejected(D) ==
  [state |-> "rejected", envelope |-> NoEnvelope, outcome |-> "TypeError",
   db |-> D, written |-> {}, uuids |-> 0]

\* a set-active handler that checks the id when the call is sent and writes
\* the pointer when the call is handled
SetActiveHandlerYields(D, c) ==
  IF c.id # JsNull /\ ~c.known
  THEN Result("notfound", D, {})
  ELSE Result("ok", SetActiveProjectId(D, c.id), {"active_project_id"})

\* the manager call of the PROJECT_SET_ACTIVE handler
SetActiveHandler(D, c) == ManagerSetActiveProjectId(D, c.id)

\* the handler of call c run on store D: [state, envelope, outcome, db, ...]
Handler(c, D, now, uuid) ==
  IF c.channel = PROJECT_CREATE
  THEN \* `${formData.name}` throws inside try when formData is undefined
       IF c.missing THEN Settled(Result("TypeError", D, {}), 0)
       ELSE Settled(CreateProject(D, c.data, now, uuid), CreateUuids(c.data))
  ELSE IF c.channel = PROJECT_UPDATE
  THEN \* `${payload.id}` throws inside try and again inside catch
       IF c.missing THEN Rejected(D)
       ELSE Settled(UpdateProject(D, c.id, c.data, now, uuid),
                    UpdateUuids(c.data))
  ELSE IF c.channel = PROJECT_DELETE
  THEN Settled(DeleteProject(D, c.id), 0)
  ELSE IF c.channel = PROJECT_SET_ACTIVE
  THEN Settled(SetActiveHandler(D, c), 0)
  ELSE Settled(Result("ok", D, {}), 0)

\* payloads of the calls of IpcSpec
IpcCreatePayloads ==
  {Payload(AllKeys, NameFoo, <<TagX>>, <<>>),
   Payload(AllKeys, NameBar, <<>>, <<>>),
   Payload(AllKeys, NameEmpty, <<>>, <<>>)}

IpcUpdatePayloads == {Payload({"name"}, NameBar, <<>>, <<>>)}

Call(slot, channel, missing, id, data) ==
  [slot |-> slot, channel |-> channel, missing |-> missing, id |-> id,
   data |-> data, known |-> id \in ProjectIds(Store), state |-> "sent",
   envelope |-> NoEnvelope]

\* what a renderer may send
Requests(slot) ==
  {Call(slot, PROJECT_CREATE, FALSE, JsNull, d) : d \in IpcCreatePayloads}
  \cup {Call(slot, PROJECT_CREATE, TRUE, JsNull, NoData)}
  \cup {Call(slot, PROJECT_UPDATE, FALSE, id, d) :
          id \in IdInputs, d \in IpcUpdatePayloads}
  \cup {Call(slot, PROJECT_UPDATE, TRUE, JsNull, NoData)}
  \cup {Call(slot, PROJECT_DELETE, FALSE, id, NoData) : id \in IdInputs}
  \cup {Call(slot, PROJECT_DELETE, TRUE, IdUndefined, NoData)}
  \cup {Call(slot, PROJECT_SET_ACTIVE, FALSE, id, NoData) :
          id \in IdInputs \cup {JsNull}}
  \cup {Call(slot, PROJECT_SET_ACTIVE, TRUE, IdUndefined, NoData)}
  \cup {Call(slot, PROJECT_GET_ACTIVE, TRUE, JsNull, NoData)}

FreeSlots == (1..MaxCalls) \ {c.slot : c \in calls}

\* ipcRenderer.invoke(channel, payload): the message is on its way
invoke ==
  /\ FreeSlots # {}
  /\ \E c \in Requests(CHOOSE n \in FreeSlots : \A k \in FreeSlots : n <= k) :
       calls' = calls \cup {c}
  /\ last' = [op |-> "invoke", id |-> JsNull, outcome |-> "ok",
              written |-> {}, data |-> NoData]
  /\ UNCHANGED <<projects, project_tags, project_repositories, app_metadata,
                 clock, nextUuid, instance, db, handles, repository>>

\* ipcMain runs the handler registered for the channel of a message
handle ==
  \E c \in {x \in calls : x.state = "sent"} :
    \E r \in {Handler(c, Store, clock, nextUuid)} :
        /\ r.uuids > 0 => HasUuids(r.uuids)
        /\ Commit(r.db)
        /\ nextUuid' = nextUuid + r.uuids
        /\ calls' = (calls \ {c})
                    \cup {[c EXCEPT !.state = r.state,
                                    !.envelope = r.envelope]}
        /\ last' = [op |-> c.channel, id |-> c.id, outcome |-> r.outcome,
                    written |-> r.written, data |-> NoData]
        /\ repository' = GetRepository(Life, repository, "none").repository
        /\ UNCHANGED <<clock, instance, db, handles>>

\* the renderer's promise settles
settle ==
  \E c \in {x \in calls : x.state # "sent"} :
      /\ calls' = calls \ {c}
      /\ last' = [op |-> "settle", id |-> JsNull, outcome |-> "ok",
                  written |-> {}, data |-> NoData]
      /\ UNCHANGED <<projects, project_tags, project_repositories,
                     app_metadata, clock, nextUuid, instance, db, handles,
                     repository>>

IpcNext == invoke \/ handle \/ settle

IpcSpec == Init /\ [][IpcNext]_vars

(***************************************************************************)
(* Properties.                                                             *)
(***************************************************************************)
StoreNext == [projects |-> projects', project_tags |-> project_tags',
              project_repositories |-> project_repositories',
              app_metadata |-> app_metadata']

Pointer == app_metadata.active_project_id

\* C1: in every state reached by ProjectManager calls the active project
\* pointer is null or the id of a project of the catalog.
C1_ActivePointerValid ==
  Pointer = "null" \/ Pointer \in {p.id : p \in projects}

\* the active project was deleted while another project stayed
C1_Witness ==
  /\ last.op = "deleteProject" /\ last.outcome = "ok"
  /\ "active_project_id" \in last.written
  /\ projects # {}

\* C2: no two distinct projects have names equal under case-insensitive
\* comparison, whatever createProject and updateProject calls were made.
C2_NamesUnique ==
  \A p, q \in projects :
    p.id # q.id => ToLowerCase(p.name) # ToLowerCase(q.name)

\* C3: a successful deleteProject(id) sets the pointer to null when it was
\* id, leaves it as it was otherwise, and every other project is still
\* retrievable unchanged.
C3_DeleteFrame ==
  [][(last'.op = "deleteProject" /\ last'.outcome = "ok") =>
       /\ Pointer' = IF Pointer = last'.id THEN "null" ELSE Pointer
       /\ \A p \in projects : p.id # last'.id =>
            /\ p \in projects'
            /\ HydrateProject(StoreNext, p) = HydrateProject(Store, p)]_vars

\* a project that was not the active one was deleted, the pointer still set
C3_Witness ==
  /\ last.op = "deleteProject" /\ last.outcome = "ok"
  /\ last.written = {}
  /\ Pointer # "null"

RepoRows(D, id) == SelectSeqOf(D.project_repositories, id)

\* C4: every tag row and every repository row belongs to a project that
\* exists, after every repository operation, failed ones included.
C4_NoOrphans ==
  /\ \A t \in BagToSet(project_tags) :
       t.project_id \in {p.id : p \in projects}
  /\ \A i \in 1..Len(project_repositories) :
       project_repositories[i].project_id \in {p.id : p \in projects}

\* a project was deleted while child rows of another project are stored
C4_Witness ==
  /\ last.op = "delete" /\ last.outcome = "ok"
  /\ last.id \notin {p.id : p \in projects}
  /\ project_tags # EmptyBag

\* C5: a create that throws leaves the projects, tags and repositories
\* tables exactly as they were before the call.
C5_CreateAtomic ==
  [][(last'.op = "create" /\ last'.outcome = "storage") =>
       StoreNext = Store]_vars

\* a create failed on a store that holds a project
C5_Witness ==
  /\ last.op = "create" /\ last.outcome = "storage"
  /\ projects # {}

\* C6: an update that throws leaves the project's name, tags, repositories
\* and updatedAt exactly as they were before the call.
C6_UpdateAtomic ==
  [][(last'.op = "update" /\ last'.outcome = "storage") =>
       StoreNext = Store]_vars

\* an update of an existing project failed
C6_Witness ==
  /\ last.op = "update" /\ last.outcome = "storage"
  /\ last.id \in {p.id : p \in projects}

\* a repository of the aggregate without its generated id
WithoutId(r) ==
  [url |-> r.url, name |-> r.name, defaultBranch |-> r.defaultBranch,
   provider |-> r.provider]

EmptyAsAbsent(v) == IF v = <<>> THEN UNDEFINED ELSE v

\* the provided repository with its empty optional fields read as absent
EmptyFieldsAbsent(r) ==
  [url |-> r.url, name |-> EmptyAsAbsent(r.name),
   defaultBranch |-> EmptyAsAbsent(r.defaultBranch),
   provider |-> EmptyAsAbsent(r.provider)]

\* the aggregate findById(id) returns from store D
Found(D, id) == HydrateProject(D, ProjectRow(D, id))

\* C7 as stated: after a successful update(id, {tags: T}) the tags of
\* findById(id) are exactly T, and after update(id, {repositories: R}) the
\* stored list is exactly R.
C7_ReplaceExactly ==
  (last.op = "update" /\ last.outcome = "ok") =>
    /\ Has(last.data, "tags") =>
         Found(Store, last.id).tags = BagOfSeq(last.data.tags)
    /\ Has(last.data, "repositories") =>
         LET rs == Found(Store, last.id).repositories
         IN  [i \in 1..Len(rs) |-> WithoutId(rs[i])] = last.data.repositories

\* C7 amended: after a successful update the tags of findById(id) are
\* exactly T, and the stored repositories are exactly the provided ones, in
\* order, an optional field provided as the empty string being absent.
C7_ReplaceNormalized ==
  (last.op = "update" /\ last.outcome = "ok") =>
    /\ Has(last.data, "tags") =>
         Found(Store, last.id).tags = BagOfSeq(last.data.tags)
    /\ Has(last.data, "repositories") =>
         LET rs == Found(Store, last.id).repositories
         IN  [i \in 1..Len(rs) |-> WithoutId(rs[i])]
             = [i \in 1..Len(last.data.repositories) |->
                  EmptyFieldsAbsent(last.data.repositories[i])]

\* an update replaced tags and repositories; a repository given with an
\* empty name is stored
C7_Witness ==
  /\ last.op = "update" /\ last.outcome = "ok"
  /\ last.data.tags = <<TagX>> /\ last.data.repositories = <<RepoB>>
  /\ TagRows(Store, last.id) = SetToBag({TagRow(last.id, TagX)})
  /\ Len(RepoRows(Store, last.id)) = 1

\* C8: a successful update leaves every field whose key is absent from the
\* payload unchanged, never changes id or createdAt, and changes no other
\* project.
C8_UpdateFrame ==
  [][(last'.op = "update" /\ last'.outcome = "ok") =>
       /\ last'.id \in ProjectIds(Store) /\ last'.id \in ProjectIds(StoreNext)
       /\ ProjectRow(StoreNext, last'.id).created_at
            = ProjectRow(Store, last'.id).created_at
       /\ "name" \notin last'.written =>
            ProjectRow(StoreNext, last'.id).name
              = ProjectRow(Store, last'.id).name
       /\ "tags" \notin last'.written =>
            TagRows(StoreNext, last'.id) = TagRows(Store, last'.id)
       /\ "repositories" \notin last'.written =>
            RepoRows(StoreNext, last'.id) = RepoRows(Store, last'.id)
       /\ \A p \in projects : p.id # last'.id =>
            /\ p \in projects'
            /\ HydrateProject(StoreNext, p) = HydrateProject(Store, p)]_vars

\* an update that gave only a name succeeded on a project that has tags
C8_Witness ==
  /\ last.op = "update" /\ last.outcome = "ok"
  /\ last.written = {"name"}
  /\ TagRows(Store, last.id) # EmptyBag

\* a payload that satisfies the validation rules of createProject
ValidCreatePayload(data) ==
  /\ Has(data, "name") /\ Has(data, "tags") /\ Has(data, "repositories")
  /\ Len(data.name) > 0 /\ Len(data.name) <= MaxNameLen
  /\ \E i \in 1..Len(data.name) : data.name[i] \notin Whitespace
  /\ \A i \in 1..Len(data.tags) :
       \E j \in 1..Len(data.tags[i]) : data.tags[i][j] \notin Whitespace
  /\ \A i \in 1..Len(data.repositories) :
       /\ data.repositories[i].url # UNDEFINED
       /\ \E j \in 1..Len(data.repositories[i].url) :
            data.repositories[i].url[j] \notin Whitespace

\* C9: createProject with a valid payload whose name equals an existing
\* name under case-insensitive comparison fails with the duplicate-name
\* error and creates no row.
C9_CreateDuplicate ==
  \A data \in CreatePayloads :
    (/\ ValidCreatePayload(data)
     /\ \E p \in projects : ToLowerCase(p.name) = ToLowerCase(data.name)) =>
      LET r == CreateProject(Store, data, clock, nextUuid)
      IN  r.outcome = "duplicate" /\ r.db = Store

\* C10: updateProject(id, {name: n}) of an existing project fails with the
\* duplicate-name error, changing nothing, exactly when another project
\* has a name equal to n case-insensitively; otherwise (its own name or a
\* case variant of it included) it succeeds and stores n.  Stated of the
\* projects whose own name no other project shares.
C10_RenameDuplicate ==
  \A p \in projects, n \in ManagerNames :
    (\A q \in projects :
       q.id # p.id => ToLowerCase(q.name) # ToLowerCase(p.name)) =>
    LET r == UpdateProject(Store, p.id,
                           Payload({"name"}, n, <<>>, <<>>), clock, nextUuid)
        other == \E q \in projects :
                   q.id # p.id /\ ToLowerCase(q.name) = ToLowerCase(n)
    IN  IF other
        THEN r.outcome = "duplicate" /\ r.db = Store
        ELSE r.outcome = "ok" /\ ProjectRow(r.db, p.id).name = n

\* C20: no project lists the same tag text twice, whatever creates and
\* updates (repeated tags in the payload included) were made; different
\* projects may hold the same tag text.
C20_TagsUniquePerProject ==
  /\ \A r \in BagToSet(project_tags) : CopiesIn(r, project_tags) = 1
  /\ \A p \in projects :
       \A t \in BagToSet(Found(Store, p.id).tags) :
         CopiesIn(t, Found(Store, p.id).tags) = 1

\* two projects hold the same tag text, and the latest call was refused
C20_Witness ==
  /\ \E p, q \in projects :
       /\ p.id # q.id
       /\ BagIn(TagRow(p.id, TagX), project_tags)
       /\ BagIn(TagRow(q.id, TagX), project_tags)
  /\ last.op = "update" /\ last.outcome = "storage"

\* C11: setActiveProjectId(x) succeeds exactly when x is null or the id of
\* a stored project; after a success getActiveProjectId() returns x, and a
\* refused call is refused as not-found and leaves the pointer as it was.
C11_SetActive ==
  [][last'.op = "setActiveProjectId" =>
       /\ last'.outcome = "ok" <=>
            (last'.id = JsNull \/ last'.id \in ProjectIds(Store))
       /\ last'.outcome = "ok" =>
            GetActiveProjectId(StoreNext) = last'.id
       /\ last'.outcome # "ok" =>
            last'.outcome = "notfound" /\ StoreNext = Store]_vars

\* an unknown id was refused while the pointer named a project
C11_Witness ==
  /\ last.op = "setActiveProjectId" /\ last.outcome = "notfound"
  /\ Pointer \in ProjectIds(Store)

\* C12 as stated: every updateProject, deleteProject and non-null
\* setActiveProjectId call whose id is not in the catalog fails with
\* not-found and leaves the store unchanged.
C12_UnknownIdNotFound ==
  [][(/\ last'.op \in {"updateProject", "deleteProject",
                       "setActiveProjectId"}
      /\ last'.id # JsNull
      /\ last'.id \notin ProjectIds(Store)) =>
       last'.outcome = "notfound" /\ StoreNext = Store]_vars

\* C12 amended: with an id that is not in the catalog, updateProject fails
\* with the validation error when the payload is invalid and with not-found
\* otherwise, deleteProject and setActiveProjectId fail with not-found, and
\* all of them leave the store unchanged.
C12_UnknownIdRefused ==
  \A id \in IdInputs \ ProjectIds(Store) :
    /\ \A data \in UpdatePayloads :
         LET r == UpdateProject(Store, id, data, clock, nextUuid)
         IN  /\ r.outcome = IF ValidateProjectData(data) = <<>>
                            THEN "notfound" ELSE "validation"
             /\ r.db = Store
    /\ DeleteProject(Store, id).outcome = "notfound"
    /\ DeleteProject(Store, id).db = Store
    /\ ManagerSetActiveProjectId(Store, id).outcome = "notfound"
    /\ ManagerSetActiveProjectId(Store, id).db = Store

\* an update of an unknown id was refused as not-found while the catalog
\* held a project and the pointer was set
C12_Witness ==
  /\ last.op = "updateProject" /\ last.outcome = "notfound"
  /\ projects # {} /\ Pointer # "null"

\* the field paths of the errors of a validation
ErrorPaths(errors) ==
  {[field |-> errors[i].field, index |-> errors[i].index] :
     i \in 1..Len(errors)}

\* C13: createProject with a payload that has no name fails with a
\* validation error on the field name and creates nothing.
C13_NameRequired ==
  \A data \in CreatePayloads :
    ~Has(data, "name") =>
      LET r == CreateProject(Store, data, clock, nextUuid)
      IN  /\ r.outcome = "validation"
          /\ [field |-> "name", index |-> -1]
               \in ErrorPaths(ValidateProjectData(data))
          /\ r.db = Store

\* the field paths the validation rules name for a payload: name when it
\* is missing on create, blank or longer than 255 characters, tags[i] for
\* every tag that is no string or blank, repositories[j].url for every
\* repository whose url is missing or blank
ViolatedPaths(data, onCreate) ==
  (IF \/ onCreate /\ "name" \notin data.keys
      \/ /\ "name" \in data.keys
         /\ \/ \A k \in 1..Len(data.name) : data.name[k] \in Whitespace
            \/ Len(data.name) > MaxNameLen
   THEN {[field |-> "name", index |-> -1]} ELSE {})
  \cup (IF "tags" \in data.keys
        THEN {[field |-> "tags", index |-> i - 1] :
                i \in {j \in 1..Len(data.tags) :
                         \/ data.tags[j] \in {UNDEFINED, NULL}
                         \/ \A k \in 1..Len(data.tags[j]) :
                              data.tags[j][k] \in Whitespace}}
        ELSE {})
  \cup (IF "repositories" \in data.keys
        THEN {[field |-> "repositories.url", index |-> i - 1] :
                i \in {j \in 1..Len(data.repositories) :
                         \/ data.repositories[j].url \in {UNDEFINED, NULL}
                         \/ \A k \in 1..Len(data.repositories[j].url) :
                              data.repositories[j].url[k] \in Whitespace}}
        ELSE {})

\* C14: for every createProject and updateProject payload the validation
\* reports exactly the violated field paths of the payload, all of them in
\* one error, and nothing is written when there is one.
C14_AllViolationsReported ==
  /\ \A data \in CreatePayloads :
       /\ ErrorPaths(ValidateProjectData(data)) = ViolatedPaths(data, TRUE)
       /\ ViolatedPaths(data, TRUE) # {} =>
            LET r == CreateProject(Store, data, clock, nextUuid)
            IN  r.outcome = "validation" /\ r.db = Store
  /\ \A data \in UpdatePayloads, id \in IdInputs :
       /\ ErrorPaths(ValidateProjectData(data)) = ViolatedPaths(data, FALSE)
       /\ ViolatedPaths(data, FALSE) # {} =>
            LET r == UpdateProject(Store, id, data, clock, nextUuid)
            IN  r.outcome = "validation" /\ r.db = Store

\* C15 as stated: after a successful create(formData) returning result,
\* findById(result.id) has the id of result, the name of formData, equal
\* createdAt and updatedAt, the tags of formData.tags and the repositories
\* of formData.repositories.
C15_CreateRoundTrip ==
  (last.op = "create" /\ last.outcome = "ok") =>
    /\ FindById(Store, last.id) # {}
    /\ LET found == Found(Store, last.id)
       IN  /\ found.id = last.id
           /\ found.name = last.data.name
           /\ found.createdAt = clock /\ found.updatedAt = clock
           /\ found.tags = BagOfSeq(last.data.tags)
           /\ [i \in 1..Len(found.repositories) |->
                 WithoutId(found.repositories[i])] = last.data.repositories

\* C15 amended: as stated, an optional field of a repository given as the
\* empty string being absent in the project read back.
C15_CreateRoundTripNormalized ==
  (last.op = "create" /\ last.outcome = "ok") =>
    /\ FindById(Store, last.id) # {}
    /\ LET found == Found(Store, last.id)
       IN  /\ found.id = last.id
           /\ found.name = last.data.name
           /\ found.createdAt = clock /\ found.updatedAt = clock
           /\ found.tags = BagOfSeq(last.data.tags)
           /\ [i \in 1..Len(found.repositories) |->
                 WithoutId(found.repositories[i])]
              = [i \in 1..Len(last.data.repositories) |->
                   EmptyFieldsAbsent(last.data.repositories[i])]

\* a project was created with two tags and a repository
C15_Witness ==
  /\ last.op = "create" /\ last.outcome = "ok"
  /\ last.data.tags = <<TagY, TagX>> /\ last.data.repositories = <<RepoB>>
  /\ BagCardinality(TagRows(Store, last.id)) = 2
  /\ Len(RepoRows(Store, last.id)) = 1

\* the repositories of a provided list as they are read back, ids aside
Normalized(repos) == [i \in 1..Len(repos) |-> EmptyFieldsAbsent(repos[i])]

\* the call of this step supplied the repositories of project id
Supplied(id) ==
  /\ last'.op \in {"create", "update"} /\ last'.outcome = "ok"
  /\ last'.id = id /\ Has(last'.data, "repositories")

\* C16: a create or update that supplies repositories r1, ..., rn makes the
\* project read back with them in that order, and every later step that
\* does not supply the project's repositories again leaves the list read
\* back as it was.
C16_RepositoryOrder ==
  [][/\ Supplied(last'.id) =>
          LET rs == Found(StoreNext, last'.id).repositories
          IN  [i \in 1..Len(rs) |-> WithoutId(rs[i])]
              = Normalized(last'.data.repositories)
     /\ \A id \in ProjectIds(Store) \cap ProjectIds(StoreNext) :
          ~Supplied(id) =>
            Found(StoreNext, id).repositories
            = Found(Store, id).repositories]_vars

\* a project reads back two repositories, in the order given, after a
\* later update of its name
C16_Witness ==
  /\ last.op = "update" /\ last.outcome = "ok"
  /\ last.data.keys = {"name"}
  /\ LET rs == Found(Store, last.id).repositories
     IN  /\ Len(rs) = 2
         /\ rs[1].url = RepoB.url /\ rs[2].url = RepoA.url

\* C17: findAll returns every project of the catalog exactly once, newest
\* createdAt first, each with its current tags and repositories.
C17_FindAll ==
  LET all == FindAll(Store, nextUuid)
  IN  /\ Len(all) = Cardinality(projects)
      /\ {all[i].id : i \in 1..Len(all)} = ProjectIds(Store)
      /\ \A i, j \in 1..Len(all) :
           i < j => all[i].createdAt >= all[j].createdAt
      /\ \A i \in 1..Len(all) :
           /\ all[i].name = ProjectRow(Store, all[i].id).name
           /\ all[i].tags
              = [t \in {r.tag : r \in BagToSet(TagRows(Store, all[i].id))}
                   |-> 1]
           /\ [k \in 1..Len(all[i].repositories) |->
                 all[i].repositories[k].id]
              = [k \in 1..Len(RepoRows(Store, all[i].id)) |->
                   RepoRows(Store, all[i].id)[k].id]

\* findAll returns two projects, the newer one first though it was created
\* last, the older one with a tag and a repository
C17_Witness ==
  LET all == FindAll(Store, nextUuid)
  IN  /\ Len(all) = 2
      /\ all[1].createdAt > all[2].createdAt
      /\ all[2].tags # EmptyBag /\ Len(all[2].repositories) = 1

\* the repository ids of a project, in the order findById returns them
RepoIds(D, id) == [k \in 1..Len(RepoRows(D, id)) |-> RepoRows(D, id)[k].id]

\* C18: after a successful update(id, {repositories: R}) no repository id of
\* the project is one it had before, also where the url is unchanged, and
\* repository ids are unique across the catalog; an update without the
\* repositories key leaves the project's repository ids unchanged.
C18_FreshRepositoryIds ==
  [][(last'.op = "update" /\ last'.outcome = "ok") =>
       /\ IF Has(last'.data, "repositories")
          THEN /\ Range(RepoIds(StoreNext, last'.id))
                    \cap Range(RepoIds(Store, last'.id)) = {}
               /\ Len(RepoIds(StoreNext, last'.id))
                    = Len(last'.data.repositories)
          ELSE RepoIds(StoreNext, last'.id) = RepoIds(Store, last'.id)
       /\ \A i, j \in 1..Len(project_repositories') :
            project_repositories'[i].id = project_repositories'[j].id
              => i = j]_vars

\* the only project, the first created, was given <<RepoA>> by an update and
\* its repository carries the third uuid: the second went to a row that the
\* update deleted
C18_Witness ==
  /\ last.op = "update" /\ last.outcome = "ok"
  /\ Has(last.data, "repositories") /\ last.data.repositories = <<RepoA>>
  /\ ProjectIds(Store) = {"1"} /\ last.id = "1"
  /\ RepoIds(Store, "1") = <<"3">>
  /\ nextUuid = 4

\* C19: every successful update, whichever of name, tags, repositories it
\* provides (none included), sets the project's updatedAt to the time of the
\* call; over any sequence of operations updatedAt never decreases and
\* createdAt <= updatedAt holds for every project.
C19_UpdatedAt ==
  [][/\ (last'.op = "update" /\ last'.outcome = "ok") =>
          ProjectRow(StoreNext, last'.id).updated_at = clock
     /\ \A id \in ProjectIds(Store) \cap ProjectIds(StoreNext) :
          ProjectRow(StoreNext, id).updated_at >= ProjectRow(Store, id).updated_at
     /\ \A id \in ProjectIds(StoreNext) :
          ProjectRow(StoreNext, id).created_at <= ProjectRow(StoreNext, id).updated_at]_vars

\* an update that provides no field has moved updatedAt past createdAt
C19_Witness ==
  /\ last.op = "update" /\ last.outcome = "ok" /\ last.data.keys = {}
  /\ Found(Store, last.id).updatedAt = clock
  /\ Found(Store, last.id).createdAt < clock

\* C27: update(id, partial) of the repository with an id that has no project
\* row throws for every partial (name only, tags, repositories, empty) and
\* leaves storage unchanged: no tag or repository row of that project_id
\* is left behind.
C27_UpdateUnknownId ==
  \A id \in IdInputs \ ProjectIds(Store), data \in RepoUpdatePayloads :
    LET r == Update(Store, id, data, clock, nextUuid)
    IN  /\ ~r.ok
        /\ r.db = Store
        /\ \A t \in BagToSet(r.db.project_tags) : t.project_id # id
        /\ RepoRows(r.db, id) = <<>>

\* an update of an id that is not in a non-empty catalog has thrown
C27_Witness ==
  /\ last.op = "update" /\ last.outcome = "storage"
  /\ last.id \notin ProjectIds(Store)
  /\ projects # {} /\ project_tags # EmptyBag

\* C28: a deleteProject(id) call that throws changes nothing; if id was the
\* active project and the row deletion fails with a storage error, the
\* active pointer still equals id afterwards.
C28_FailedDeleteChangesNothing ==
  [][(last'.op = "deleteProject" /\ last'.outcome # "ok") =>
       StoreNext = Store]_vars

\* the DatabaseManager object a life-cycle step was called on
Callee == CHOOSE m \in 1..Len(db') : ToString(m) = last'.id

\* the connections that are open
OpenHandles == {h \in 1..Len(handles) : handles[h] = "open"}

\* C21: if initialize() fails, while opening the connection or while
\* executing the schema, the manager holds no handle afterwards (getDatabase
\* fails with 'not initialized' and a later initialize() tries again).
C21_FailedInitializeHoldsNoHandle ==
  [][(last'.op = "initialize" /\ last'.outcome # "ok") =>
       GetDatabase([db |-> db'], Callee) = 0]_vars

\* C22: initialize() on an initialized manager opens no connection, does not
\* run the schema, changes no stored data, and getDatabase() returns the
\* same handle before and after.
C22_InitializeIdempotent ==
  [][(last'.op = "initialize" /\ db[Callee] # 0) =>
       /\ last'.outcome = "ok"
       /\ handles' = handles
       /\ StoreNext = Store
       /\ db' = db
       /\ GetDatabase([db |-> db'], Callee) = GetDatabase(Life, Callee)]_vars

\* initialize() was a no-op on a manager whose store holds a project and an
\* active pointer
C22_Witness ==
  /\ last.op = "initialize" /\ last.outcome = "ok" /\ last.written = {}
  /\ projects # {} /\ Pointer = "1"
  /\ OpenHandles # {}

\* getDatabase() of manager m returns an open handle
Answers(d, hs, m) == d[m] # 0 /\ hs[d[m]] = "open"

\* C23: getDatabase() returns an open handle iff the last successful
\* life-cycle call was initialize(); before any initialize and after close
\* it fails, and close() on a closed or never-initialized manager is a
\* no-op that does not throw.
C23_HandleIffInitialized ==
  [][\A m \in Managers :
       IF last'.op = "initialize" /\ last'.outcome = "ok" /\ Callee = m
       THEN Answers(db', handles', m)
       ELSE IF \/ last'.op = "close" /\ Callee = m
               \/ last'.op = "resetInstance" /\ instance = m
       THEN /\ ~Answers(db', handles', m)
            /\ last'.outcome = "ok"
            /\ db[m] = 0 => (db' = db /\ handles' = handles)
       ELSE IF /\ last'.op \in {"createProject", "setActiveProjectId"}
               /\ m = Exported /\ repository = 0
       THEN \* getRepository() may have called initialize()
            Answers(db, handles, m) => Answers(db', handles', m)
       ELSE Answers(db', handles', m) = Answers(db, handles, m)]_vars

\* C24: closing and re-initializing over an existing store preserves the
\* active pointer, the schema version and all project, tag and repository
\* rows; the schema creates tables and seeds the two metadata rows only
\* when absent.
C24_ReinitializePreserves ==
  [][(last'.op = "initialize" /\ last'.outcome = "ok"
                              /\ "db" \in last'.written) =>
       /\ projects' = projects
       /\ project_tags' = project_tags
       /\ project_repositories' = project_repositories
       /\ \A key \in DOMAIN app_metadata :
            app_metadata'[key] =
              IF app_metadata[key] # NoRow THEN app_metadata[key]
              ELSE [schema_version |-> "1",
                    active_project_id |-> "null"][key]
       /\ TablesExist(StoreNext)]_vars

\* initialize() opened a connection after an earlier one was closed, over a
\* store with a project, a tag and a set active pointer
C24_Witness ==
  /\ last.op = "initialize" /\ last.outcome = "ok" /\ "db" \in last.written
  /\ Len(handles) >= 2 /\ Cardinality(OpenHandles) = 1
  /\ projects # {} /\ project_tags # EmptyBag /\ Pointer = "1"

\* C25: at every moment at most one connection handle is open, for any
\* sequence of getInstance, initialize, close and resetInstance calls,
\* calls through a reference obtained before resetInstance included.
C25_OneConnection == Cardinality(OpenHandles) <= 1

\* C29: whenever a ProjectManager operation runs, its repository is bound
\* to the storage manager's currently open connection, also after
\* databaseManager.close() with or without a later initialize().
C29_RepositoryOnLiveHandle ==
  [][(last'.op \in {"createProject", "setActiveProjectId"}
        /\ repository' # 0) =>
       /\ handles'[repository'] = "open"
       /\ repository' = db'[Exported]]_vars

\* C26: every handler invocation, for every payload, a malformed or missing
\* one included, resolves (never rejects) with an envelope: success = true
\* with no error when the manager call returns, success = false with an
\* error message and no data when it throws.
C26_AlwaysEnvelope ==
  \A c \in calls :
    /\ c.state # "rejected"
    /\ c.state = "resolved" =>
         IF c.envelope.success
         THEN "error" \notin c.envelope.keys
         ELSE c.envelope.keys = {"error"} /\ c.envelope.error # "<none>"

\* what the manager method of call c gives when it runs alone on store D
Sequential(c, D, now, uuid) ==
  IF c.missing /\ c.channel \in {PROJECT_CREATE, PROJECT_UPDATE} THEN D
  ELSE IF c.channel = PROJECT_CREATE
  THEN CreateProject(D, c.data, now, uuid).db
  ELSE IF c.channel = PROJECT_UPDATE
  THEN UpdateProject(D, c.id, c.data, now, uuid).db
  ELSE IF c.channel = PROJECT_DELETE THEN DeleteProject(D, c.id).db
  ELSE IF c.channel = PROJECT_SET_ACTIVE
  THEN ManagerSetActiveProjectId(D, c.id).db
  ELSE D

\* C30: for any interleaving of concurrently issued project requests each
\* handler's manager call runs to completion without yielding to another,
\* so the state after it is the one the call gives when run alone on the
\* state before it, and setActive(id) racing with delete(id) never leaves
\* the pointer on the deleted project.
C30_HandlersSerialized ==
  [][(last'.op \notin {"invoke", "settle"}) =>
       /\ \E c \in calls :
            /\ c.state = "sent"
            /\ c.channel = last'.op /\ c.id = last'.id
            /\ StoreNext = Sequential(c, Store, clock, nextUuid)
            /\ \A x \in calls \ {c} : x \in calls'
       /\ Pointer' \in {"null"} \cup ProjectIds(StoreNext)]_vars

\* delete(id) and setActive(id) were in flight together, setActive sent
\* while the project was stored: delete was handled first and succeeded,
\* setActive was refused, the pointer references no project
C30_Witness ==
  /\ Pointer = "null"
  /\ \E c1, c2 \in calls :
       /\ c1.channel = PROJECT_DELETE /\ c1.state = "resolved"
       /\ c1.envelope.success
       /\ c2.channel = PROJECT_SET_ACTIVE /\ c2.id = c1.id /\ c2.known
       /\ c2.state = "resolved" /\ ~c2.envelope.success
       /\ c2.envelope.error = "notfound"

====
